---- MODULE Spec2Model ----
(***************************************************************************)
(* logbuf: an SQLite-backed transient log buffer (src/logbuf.go).          *)
(*                                                                         *)
(* The handle (sqliteBuf) holds a pointer db to an sql.DB, guarded by the  *)
(* RWMutex mu.  The database lives in a file at dbPath, or in memory when  *)
(* dbPath is ":memory:".  Every INSERT into the table log fires the        *)
(* trigger log_trim, which deletes by age and then by count, inside the    *)
(* INSERT statement.                                                       *)
(*                                                                         *)
(* Stores are modelled as numbered database objects (the file's inode, or  *)
(* the private memory of one in-memory connection): files[i].  path is the *)
(* object the name dbPath resolves to (0: no such file), db is the object  *)
(* the handle's sql.DB is connected to (0: nil).  A cursor opened by Dump  *)
(* keeps its object alive after Close or Clear, as an open descriptor does.*)
(*                                                                         *)
(* The specifications below let every statement and file operation        *)
(* succeed; failing I/O is not part of them.                               *)
(*                                                                         *)
(* Time is the store's wall clock in abstract ticks; maxAge is in the same *)
(* ticks.  It is the system's wall clock (julianday('now')): SpecClock     *)
(* lets it step backwards, the other specifications do not.                *)
(* Rows tied on timestamp are scanned in rowid order, as SQLite's scan of  *)
(* idx_log_ts (timestamp, rowid) yields them.                              *)
(***************************************************************************)
EXTENDS Integers, Sequences, FiniteSets, TLC

\* ---------------------------------------------------------------- bounds
MaxProcs == 2
MaxWrites == 3
MaxTime == 2

Procs == 1..MaxProcs

\* The current database and one per open cursor.
MaxFiles == MaxProcs + 1

\* Arguments of New the model draws from: both signs and zero.
LinesArgs == {-1, 0, 2}
AgeArgs == {0, 1}
MemoryPath == ":memory:"
FilePath == "lb.db"
BadPath == "/no/such/dir/lb.db"
Locations == {MemoryPath, FilePath, BadPath}

\* Payloads: sequences of one-character strings.
Payloads == { <<"a">>, <<" ", "b", " ">> }

\* ------------------------------------------------------- pure functions

IsSpace(c) == c \in {" ", "\t", "\n", "\r"}

RECURSIVE TrimLeft(_)
TrimLeft(s) ==
  IF s = <<>> THEN s
  ELSE IF IsSpace(Head(s)) THEN TrimLeft(Tail(s)) ELSE s

RECURSIVE TrimRight(_)
TrimRight(s) ==
  IF s = <<>> THEN s
  ELSE IF IsSpace(s[Len(s)]) THEN TrimRight(SubSeq(s, 1, Len(s) - 1)) ELSE s

\* strings.TrimSpace
TrimSpace(s) == TrimRight(TrimLeft(s))

\* r comes before q in an ascending scan of idx_log_ts.
MutIndexLessNewestTieFirst(r, q) == r.ts < q.ts \/ (r.ts = q.ts /\ r.rowid > q.rowid)
IndexLess(r, q) == r.ts < q.ts \/ (r.ts = q.ts /\ r.rowid < q.rowid)

\* dumpStmt: SELECT entry FROM log ORDER BY timestamp
RECURSIVE OrderByTimestamp(_)
OrderByTimestamp(rows) ==
  IF rows = {} THEN <<>>
  ELSE LET first == CHOOSE r \in rows : \A q \in rows \ {r} : IndexLess(r, q)
       IN  <<first>> \o OrderByTimestamp(rows \ {first})

\* SELECT rowid FROM log ORDER BY timestamp DESC LIMIT n
NewestRows(rows, n) ==
  {r \in rows : Cardinality({q \in rows : IndexLess(r, q)}) < n}

\* First DELETE of log_trim: rows older than NEW.timestamp - maxAge_ns.
MutTrimAgeOff(rows, new, settings) == rows
MutTrimAgeInclusive(rows, new, settings) ==
  IF settings.maxAge_ns > 0
  THEN {r \in rows : ~(r.ts <= new.ts - settings.maxAge_ns)}
  ELSE rows
TrimAge(rows, new, settings) ==
  IF settings.maxAge_ns > 0
  THEN {r \in rows : ~(r.ts < new.ts - settings.maxAge_ns)}
  ELSE rows

\* Second DELETE of log_trim: all but the maxLines newest rows.
MutTrimLinesOffByOne(rows, settings) ==
  IF settings.maxLines > 0 THEN NewestRows(rows, settings.maxLines + 1) ELSE rows
MutTrimLinesOldest(rows, settings) ==
  IF settings.maxLines > 0
  THEN {r \in rows : Cardinality({q \in rows : IndexLess(q, r)}) < settings.maxLines}
  ELSE rows
TrimLines(rows, settings) ==
  IF settings.maxLines > 0 THEN NewestRows(rows, settings.maxLines) ELSE rows

\* The trigger log_trim, run AFTER INSERT with NEW = new.
MutNoTrigger(rows, new, settings) == rows
log_trim(rows, new, settings) == TrimLines(TrimAge(rows, new, settings), settings)

\* rowid SQLite gives a new row of a table without INTEGER PRIMARY KEY.
NextRowid(rows) ==
  IF rows = {} THEN 1
  ELSE 1 + (CHOOSE m \in {r.rowid : r \in rows} : \A r \in rows : r.rowid <= m)

\* ------------------------------------------------------------------ state
VARIABLES
  constructed,  \* "no": New not called; "ok": handle returned; else the error
  newArgs,      \* the arguments New was called with
  maxLines, maxAge, dbPath, db, mu,   \* sqliteBuf's fields
  files,        \* the database objects
  path,         \* the object at dbPath in the file system, 0 when absent
  now,          \* the store's clock
  pc, op, arg, dbl, ret,              \* per caller: position, call, locals, result
  last,         \* the step taken last
  nwrites,      \* inserts committed so far
  callers,      \* the goroutines sharing the handle
  trail,        \* a lone caller's last three completed calls, oldest first
  kept          \* what Dump would have returned when the last of them, a Close, began

vars == <<constructed, newArgs, maxLines, maxAge, dbPath, db, mu, files, path,
          now, pc, op, arg, dbl, ret, last, nwrites, callers, trail, kept>>

handle == <<constructed, newArgs, maxLines, maxAge, dbPath, callers>>

NoFile == [used |-> FALSE, rows |-> {}, settings |-> [maxAge_ns |-> 0, maxLines |-> 0],
           hist |-> <<>>]
NoRet == [op |-> "none", err |-> "", n |-> 0, val |-> <<>>, rows |-> <<>>, hist |-> <<>>]
NoStep == [proc |-> 0, step |-> "none", store |-> 0, ts |-> 0, trail |-> <<>>, kept |-> <<>>]
NoArgs == [maxLines |-> 0, maxAge |-> 0, dbPath |-> ""]

\* Objects some name, handle or cursor still refers to.
Referenced(p_path, p_db, p_pc, p_dbl) ==
  {p_path, p_db} \cup {p_dbl[p] : p \in {q \in Procs : p_pc[q] \in {"exec", "query", "rows"}}}

\* Unreferenced objects are gone.
Collect(f, refs) == [i \in DOMAIN f |-> IF i \in refs THEN f[i] ELSE NoFile]

FreeFile == CHOOSE i \in 1..MaxFiles :
              /\ ~files[i].used
              /\ \A j \in 1..MaxFiles : ~files[j].used => i <= j

Openable(loc) == loc # BadPath

\* The object sql.Open reaches at loc: the existing file, or a new empty
\* database (always new in memory).
OpenTarget(loc) == IF loc # MemoryPath /\ path # 0 THEN path ELSE FreeFile

\* setupSQL (CREATE ... IF NOT EXISTS) and the INSERT OR REPLACE INTO
\* log_settings, on object i.

MutOpenedKeepsSettings(f, i, ml, ma) ==
  [f EXCEPT ![i] = [used |-> TRUE,
                    rows |-> IF f[i].used THEN f[i].rows ELSE {},
                    settings |-> f[i].settings,
                    hist |-> IF f[i].used THEN f[i].hist ELSE <<>>]]

Opened(f, i, ml, ma) ==
  [f EXCEPT ![i] = [used |-> TRUE,
                    rows |-> IF f[i].used THEN f[i].rows ELSE {},
                    settings |-> [maxAge_ns |-> ma, maxLines |-> ml],
                    hist |-> IF f[i].used THEN f[i].hist ELSE <<>>]]

TypeOK ==
  /\ constructed \in {"no", "ok", "config", "open"}
  /\ db \in 0..MaxFiles
  /\ path \in 0..MaxFiles
  /\ now \in 0..MaxTime
  /\ nwrites \in 0..MaxWrites
  /\ mu.writer \in {0} \cup Procs
  /\ mu.readers \subseteq Procs
  /\ callers \subseteq Procs

\* Before construction.
Init ==
  /\ constructed = "no"
  /\ newArgs = NoArgs
  /\ maxLines = 0 /\ maxAge = 0 /\ dbPath = ""
  /\ db = 0
  /\ mu = [readers |-> {}, writer |-> 0]
  /\ files = [i \in 1..MaxFiles |-> NoFile]
  /\ path = 0
  /\ now = 0
  /\ pc = [p \in Procs |-> "idle"]
  /\ op = [p \in Procs |-> "none"]
  /\ arg = [p \in Procs |-> <<>>]
  /\ dbl = [p \in Procs |-> 0]
  /\ ret = [p \in Procs |-> NoRet]
  /\ last = NoStep
  /\ nwrites = 0
  /\ callers = {1}
  /\ trail = <<>>
  /\ kept = <<>>

\* ------------------------------------------------------------ construction

\* open: connect, run the setup statements, record the policy, set b.db.
MutOpenNoFile(ml, ma, loc) ==
  LET i == FreeFile IN
  /\ files' = Opened(files, i, ml, ma)
  /\ db' = i
  /\ path' = path

open(ml, ma, loc) ==
  LET i == OpenTarget(loc) IN
  /\ files' = Opened(files, i, ml, ma)
  /\ db' = i
  /\ path' = IF loc = MemoryPath THEN path ELSE i

\* New: reject the all-zero policy, then build the handle and open it.
MutValidatesEither(ml, ma) == ~(ml = 0 \/ ma = 0)
Validates(ml, ma) == ~(ml = 0 /\ ma = 0)

New(ml, ma, loc) ==
  /\ constructed = "no"
  /\ newArgs' = [maxLines |-> ml, maxAge |-> ma, dbPath |-> loc]
  /\ IF ~Validates(ml, ma)
     THEN /\ constructed' = "config"
          /\ UNCHANGED <<maxLines, maxAge, dbPath, db, files, path>>
     ELSE IF ~Openable(loc)
     THEN /\ constructed' = "open"
          /\ UNCHANGED <<maxLines, maxAge, dbPath, db, files, path>>
     ELSE /\ constructed' = "ok"
          /\ maxLines' = ml /\ maxAge' = ma /\ dbPath' = loc
          /\ open(ml, ma, loc)
  /\ UNCHANGED <<mu, now, pc, op, arg, dbl, ret, last, nwrites, callers, trail, kept>>

\* ------------------------------------------------------------------ calls

Idle(p) == constructed = "ok" /\ p \in callers /\ pc[p] = "idle"

InFlightWrites == Cardinality({q \in Procs : pc[q] # "idle" /\ op[q] \in {"Write", "WriteString"}})

Call(p, o, b, at) ==
  /\ Idle(p)
  /\ pc' = [pc EXCEPT ![p] = at]
  /\ op' = [op EXCEPT ![p] = o]
  /\ arg' = [arg EXCEPT ![p] = b]
  /\ ret' = [ret EXCEPT ![p] = NoRet]
  /\ dbl' = [dbl EXCEPT ![p] = 0]
  /\ last' = NoStep
  /\ UNCHANGED <<handle, db, mu, files, path, now, nwrites, trail, kept>>

\* The recorded calls once o has completed after those of t; nothing is
\* recorded in a run that starts with no record.
Trailed(t, o) == IF t = <<>> THEN t ELSE Append(Tail(t), o)

\* The step p has just taken.
Took(p, what, i) ==
  [proc |-> p, step |-> what, store |-> i, ts |-> now, trail |-> trail, kept |-> kept]

\* The call returns: its locals are gone.
Return(p) ==
  /\ pc' = [pc EXCEPT ![p] = "idle"]
  /\ op' = [op EXCEPT ![p] = "none"]
  /\ arg' = [arg EXCEPT ![p] = <<>>]
  /\ dbl' = [dbl EXCEPT ![p] = 0]
  /\ trail' = Trailed(trail, IF op[p] = "WriteString" THEN "Write" ELSE op[p])

Write(p, b) == nwrites + InFlightWrites < MaxWrites /\ Call(p, "Write", b, "rlock")

WriteString(p, b) == nwrites + InFlightWrites < MaxWrites /\ Call(p, "WriteString", b, "rlock")

Dump(p) == Call(p, "Dump", <<>>, "rlock")

Close(p) == Call(p, "Close", <<>>, "lock")

Clear(p) == Call(p, "Clear", <<>>, "lock")

\* b.mu.RLock(); db := b.db; and, when db is nil, b.mu.RUnlock().
MutRLockNoHold(p) ==
  /\ pc[p] = "rlock"
  /\ mu.writer = 0
  /\ IF db # 0
     THEN /\ dbl' = [dbl EXCEPT ![p] = db]
          /\ pc' = [pc EXCEPT ![p] = IF op[p] = "Dump" THEN "query" ELSE "exec"]
     ELSE /\ pc' = [pc EXCEPT ![p] = "elock"]
          /\ UNCHANGED dbl
  /\ last' = NoStep
  /\ UNCHANGED <<handle, db, mu, files, path, now, op, arg, ret, nwrites, trail, kept>>

MutRLockUpgrade(p) ==
  /\ pc[p] = "rlock"
  /\ mu.writer = 0
  /\ mu' = [mu EXCEPT !.readers = @ \cup {p}]
  /\ IF db # 0
     THEN /\ dbl' = [dbl EXCEPT ![p] = db]
          /\ pc' = [pc EXCEPT ![p] = IF op[p] = "Dump" THEN "query" ELSE "exec"]
     ELSE /\ pc' = [pc EXCEPT ![p] = "elock"]
          /\ UNCHANGED dbl
  /\ last' = NoStep
  /\ UNCHANGED <<handle, db, files, path, now, op, arg, ret, nwrites, trail, kept>>

RLock(p) ==
  /\ pc[p] = "rlock"
  /\ mu.writer = 0
  /\ IF db # 0
     THEN /\ mu' = [mu EXCEPT !.readers = @ \cup {p}]
          /\ dbl' = [dbl EXCEPT ![p] = db]
          /\ pc' = [pc EXCEPT ![p] = IF op[p] = "Dump" THEN "query" ELSE "exec"]
     ELSE /\ pc' = [pc EXCEPT ![p] = "elock"]
          /\ UNCHANGED <<mu, dbl>>
  /\ last' = NoStep
  /\ UNCHANGED <<handle, db, files, path, now, op, arg, ret, nwrites, trail, kept>>

\* Caller p is inside a call, waiting for the exclusive lock.
WantsLock(p) == pc[p] \in {"elock", "lock"}

\* RLock as sync.RWMutex grants it: not while a caller waits in Lock.
RLockQueued(p) == (\A q \in Procs : ~WantsLock(q)) /\ RLock(p)

\* INSERT INTO log(entry) VALUES (?) with its trigger, on table t at time ts.
Inserted(t, b, ts, id) ==
  LET new == [rowid |-> NextRowid(t.rows), ts |-> ts, entry |-> b, id |-> id]
  IN  [t EXCEPT !.rows = log_trim(t.rows \cup {new}, new, t.settings),
                !.hist = Append(t.hist, [id |-> id, ts |-> ts, entry |-> b])]

\* db.Exec(writeStmt, p); b.mu.RUnlock(); return len(p), nil
WriteExec(p) ==
  /\ pc[p] = "exec"
  /\ files' = [files EXCEPT ![dbl[p]] = Inserted(@, arg[p], now, nwrites + 1)]
  /\ nwrites' = nwrites + 1
  /\ mu' = [mu EXCEPT !.readers = @ \ {p}]
  /\ ret' = [ret EXCEPT ![p] = [NoRet EXCEPT !.op = op[p],
                                             !.n = IF op[p] = "Write" THEN Len(arg[p]) ELSE 0]]
  /\ last' = Took(p, "insert", dbl[p])
  /\ Return(p)
  /\ kept' = <<>>
  /\ UNCHANGED <<handle, db, path, now>>

\* rows, err = db.Query(dumpStmt); b.mu.RUnlock()
DumpQuery(p) ==
  /\ pc[p] = "query"
  /\ mu' = [mu EXCEPT !.readers = @ \ {p}]
  /\ pc' = [pc EXCEPT ![p] = "rows"]
  /\ last' = NoStep
  /\ UNCHANGED <<handle, db, files, path, now, op, arg, dbl, ret, nwrites, trail, kept>>

\* entries = append(entries, strings.TrimSpace(string(e))) for each row
MutEntriesRaw(rs) == [k \in 1..Len(rs) |-> rs[k].entry]
Entries(rs) == [k \in 1..Len(rs) |-> TrimSpace(rs[k].entry)]

\* for rows.Next() { ... }; return entries, rows.Err(); deferred rows.Close()
DumpRows(p) ==
  /\ pc[p] = "rows"
  /\ LET rs == OrderByTimestamp(files[dbl[p]].rows) IN
       ret' = [ret EXCEPT ![p] = [NoRet EXCEPT !.op = "Dump", !.val = Entries(rs),
                                               !.rows = rs, !.hist = files[dbl[p]].hist]]
  /\ Return(p)
  /\ files' = Collect(files, Referenced(path, db, pc', dbl'))
  /\ last' = Took(p, "dump", dbl[p])
  /\ kept' = <<>>
  /\ UNCHANGED <<handle, db, mu, path, now, nwrites>>

\* The rows of the database the handle is bound to: the open one, else the
\* file at dbPath.
Retained ==
  IF db # 0 THEN files[db].rows ELSE IF path # 0 THEN files[path].rows ELSE {}

\* b.mu.Lock() of ensureOpen, Close and Clear
MutLockSkipped(p) ==
  /\ pc[p] \in {"elock", "lock"}
  /\ pc' = [pc EXCEPT ![p] = IF pc[p] = "elock" THEN "eopen" ELSE "body"]
  /\ last' = NoStep
  /\ UNCHANGED <<handle, db, mu, files, path, now, op, arg, dbl, ret, nwrites, trail, kept>>

Lock(p) ==
  /\ pc[p] \in {"elock", "lock"}
  /\ mu.writer = 0 /\ mu.readers = {}
  /\ mu' = [mu EXCEPT !.writer = p]
  /\ pc' = [pc EXCEPT ![p] = IF pc[p] = "elock" THEN "eopen" ELSE "body"]
  /\ last' = NoStep
  /\ UNCHANGED <<handle, db, files, path, now, op, arg, dbl, ret, nwrites, trail, kept>>

\* ensureOpen under the lock: return if b.db is set, else open; then retry.
MutEnsureOpenNoRecheck(p) ==
  /\ pc[p] = "eopen"
  /\ open(maxLines, maxAge, dbPath)
  /\ last' = Took(p, "open", db')
  /\ mu' = [mu EXCEPT !.writer = 0]
  /\ pc' = [pc EXCEPT ![p] = "rlock"]
  /\ UNCHANGED <<handle, now, op, arg, dbl, ret, nwrites, trail, kept>>

MutEnsureOpenNoOpen(p) ==
  /\ pc[p] = "eopen"
  /\ last' = NoStep
  /\ mu' = [mu EXCEPT !.writer = 0]
  /\ pc' = [pc EXCEPT ![p] = "rlock"]
  /\ UNCHANGED <<handle, db, files, path, now, op, arg, dbl, ret, nwrites, trail, kept>>

ensureOpen(p) ==
  /\ pc[p] = "eopen"
  /\ IF db # 0
     THEN /\ last' = NoStep
          /\ UNCHANGED <<db, files, path>>
     ELSE /\ open(maxLines, maxAge, dbPath)
          /\ last' = Took(p, "open", db')
  /\ mu' = [mu EXCEPT !.writer = 0]
  /\ pc' = [pc EXCEPT ![p] = "rlock"]
  /\ UNCHANGED <<handle, now, op, arg, dbl, ret, nwrites, trail, kept>>

\* Close under the lock: close the database if there is one.
MutCloseKeepsPointer(p) ==
  /\ pc[p] = "body" /\ op[p] = "Close"
  /\ mu' = [mu EXCEPT !.writer = 0]
  /\ Return(p)
  /\ ret' = [ret EXCEPT ![p] = [NoRet EXCEPT !.op = "Close"]]
  /\ last' = Took(p, "close", db)
  /\ kept' = IF trail = <<>> THEN kept ELSE OrderByTimestamp(Retained)
  /\ UNCHANGED <<handle, db, files, path, now, nwrites>>

MutCloseRemovesFile(p) ==
  /\ pc[p] = "body" /\ op[p] = "Close"
  /\ db' = 0
  /\ path' = 0
  /\ files' = Collect(files, Referenced(0, 0, pc, dbl))
  /\ mu' = [mu EXCEPT !.writer = 0]
  /\ Return(p)
  /\ ret' = [ret EXCEPT ![p] = [NoRet EXCEPT !.op = "Close"]]
  /\ last' = Took(p, "close", db)
  /\ kept' = IF trail = <<>> THEN kept ELSE OrderByTimestamp(Retained)
  /\ UNCHANGED <<handle, now, nwrites>>

CloseBody(p) ==
  /\ pc[p] = "body" /\ op[p] = "Close"
  /\ db' = 0
  /\ files' = Collect(files, Referenced(path, 0, pc, dbl))
  /\ mu' = [mu EXCEPT !.writer = 0]
  /\ Return(p)
  /\ ret' = [ret EXCEPT ![p] = [NoRet EXCEPT !.op = "Close"]]
  /\ last' = Took(p, "close", db)
  /\ kept' = IF trail = <<>> THEN kept ELSE OrderByTimestamp(Retained)
  /\ UNCHANGED <<handle, path, now, nwrites>>

\* os.Remove(b.dbPath), unless the database is in memory
MutRemovedNothing(loc, i) == i
Removed(loc, i) == IF loc # MemoryPath THEN 0 ELSE i

\* Clear under the lock: close the database, remove the file, return nil.
ClearBody(p) ==
  /\ pc[p] = "body" /\ op[p] = "Clear"
  /\ db' = 0
  /\ path' = Removed(dbPath, path)
  /\ files' = Collect(files, Referenced(path', 0, pc, dbl))
  /\ mu' = [mu EXCEPT !.writer = 0]
  /\ Return(p)
  /\ ret' = [ret EXCEPT ![p] = [NoRet EXCEPT !.op = "Clear"]]
  /\ last' = Took(p, "clear", db)
  /\ kept' = <<>>
  /\ UNCHANGED <<handle, now, nwrites>>

\* ----------------------------------------------------------- failing I/O

\* The call returns the error e: its locals are gone, and the record of
\* completed calls shows a failure.
ReturnErr(p, e) ==
  /\ pc' = [pc EXCEPT ![p] = "idle"]
  /\ arg' = [arg EXCEPT ![p] = <<>>]
  /\ dbl' = [dbl EXCEPT ![p] = 0]
  /\ ret' = [ret EXCEPT ![p] = [NoRet EXCEPT !.op = op[p], !.err = e]]
  /\ op' = [op EXCEPT ![p] = "none"]
  /\ trail' = Trailed(trail, "fail")
  /\ kept' = <<>>

\* db.Exec(writeStmt, p) fails: the statement is rolled back;
\* b.mu.RUnlock(); return 0, err
MutWriteExecFailRetries(p) ==
  /\ pc[p] = "exec"
  /\ mu' = [mu EXCEPT !.readers = @ \ {p}]
  /\ pc' = [pc EXCEPT ![p] = "rlock"]
  /\ dbl' = [dbl EXCEPT ![p] = 0]
  /\ last' = Took(p, "fail", dbl[p])
  /\ UNCHANGED <<handle, db, files, path, now, nwrites, op, arg, ret, trail, kept>>

WriteExecFail(p) ==
  /\ pc[p] = "exec"
  /\ mu' = [mu EXCEPT !.readers = @ \ {p}]
  /\ last' = Took(p, "fail", dbl[p])
  /\ ReturnErr(p, "exec")
  /\ UNCHANGED <<handle, db, files, path, now, nwrites>>

\* db.Query(dumpStmt) fails: b.mu.RUnlock(); return nil, err
DumpQueryFail(p) ==
  /\ pc[p] = "query"
  /\ mu' = [mu EXCEPT !.readers = @ \ {p}]
  /\ last' = Took(p, "fail", dbl[p])
  /\ ReturnErr(p, "query")
  /\ UNCHANGED <<handle, db, files, path, now, nwrites>>

\* rows.Scan or rows.Err fails: return nil, err; deferred rows.Close()
DumpRowsFail(p) ==
  /\ pc[p] = "rows"
  /\ last' = Took(p, "fail", dbl[p])
  /\ ReturnErr(p, "rows")
  /\ files' = Collect(files, Referenced(path, db, pc', dbl'))
  /\ UNCHANGED <<handle, db, mu, path, now, nwrites>>

\* ensureOpen under the lock, b.db nil, open fails: b.db stays nil and the
\* caller returns the error.  The failure comes before anything was written,
\* or after SQLite created the file of a file-backed handle (no policy
\* recorded in it yet).
ensureOpenFail(p) ==
  /\ pc[p] = "eopen" /\ db = 0
  /\ \/ UNCHANGED <<files, path>>
     \/ /\ dbPath # MemoryPath /\ path = 0
        /\ path' = FreeFile
        /\ files' = [files EXCEPT ![FreeFile] = [NoFile EXCEPT !.used = TRUE]]
  /\ mu' = [mu EXCEPT !.writer = 0]
  /\ last' = Took(p, "fail", 0)
  /\ ReturnErr(p, "open")
  /\ UNCHANGED <<handle, db, now, nwrites>>

\* The store's clock advances.
Tick ==
  /\ now < MaxTime
  /\ now' = now + 1
  /\ UNCHANGED <<handle, db, mu, files, path, pc, op, arg, dbl, ret, last, nwrites, trail, kept>>

\* The system clock is set back.
StepBack ==
  /\ now > 0
  /\ now' = now - 1
  /\ UNCHANGED <<handle, db, mu, files, path, pc, op, arg, dbl, ret, last, nwrites, trail, kept>>

\* The steps inside a call.
Step(p) ==
  \/ RLock(p)
  \/ WriteExec(p)
  \/ DumpQuery(p)
  \/ DumpRows(p)
  \/ Lock(p)
  \/ ensureOpen(p)
  \/ CloseBody(p)
  \/ ClearBody(p)

Next ==
  \/ \E ml \in LinesArgs, ma \in AgeArgs, loc \in Locations : New(ml, ma, loc)
  \/ \E p \in Procs, b \in Payloads : Write(p, b)
  \/ \E p \in Procs, b \in Payloads : WriteString(p, b)
  \/ \E p \in Procs : Dump(p)
  \/ \E p \in Procs : Close(p)
  \/ \E p \in Procs : Clear(p)
  \/ \E p \in Procs : Step(p)
  \/ Tick

\* One caller, from before construction.
Spec == Init /\ [][Next]_vars

\* The handle New(ml, ma, loc) has returned, given to the callers cs.
Constructed(locs, cs, t) ==
  \E ml \in LinesArgs, ma \in AgeArgs, loc \in locs :
    /\ Validates(ml, ma)
    /\ constructed = "ok"
    /\ newArgs = [maxLines |-> ml, maxAge |-> ma, dbPath |-> loc]
    /\ maxLines = ml /\ maxAge = ma /\ dbPath = loc
    /\ db = 1
    /\ files = Opened([i \in 1..MaxFiles |-> NoFile], 1, ml, ma)
    /\ path = IF loc = MemoryPath THEN 0 ELSE 1
    /\ mu = [readers |-> {}, writer |-> 0]
    /\ now = 0
    /\ pc = [p \in Procs |-> "idle"]
    /\ op = [p \in Procs |-> "none"]
    /\ arg = [p \in Procs |-> <<>>]
    /\ dbl = [p \in Procs |-> 0]
    /\ ret = [p \in Procs |-> NoRet]
    /\ last = NoStep
    /\ nwrites = 0
    /\ callers = cs
    /\ trail = t
    /\ kept = <<>>

\* One caller of a constructed handle, its last three calls on record.
InitSeq == Constructed({MemoryPath, FilePath}, {1}, <<"none", "none", "none">>)

\* The lone caller writes one string: the order of its calls is the subject.
NextSeq ==
  \/ \E p \in Procs : WriteString(p, <<" ", "x">>)
  \/ \E p \in Procs : Dump(p)
  \/ \E p \in Procs : Close(p)
  \/ \E p \in Procs : Clear(p)
  \/ \E p \in Procs : Step(p)
  \/ Tick

SpecSeq == InitSeq /\ [][NextSeq]_vars

\* All callers share one constructed file-backed handle.
InitShared == Constructed({FilePath}, Procs, <<>>)

\* Concurrent callers write one payload: the interleavings are the subject.
NextShared ==
  \/ \E p \in Procs : Write(p, <<"a">>)
  \/ \E p \in Procs : Dump(p)
  \/ \E p \in Procs : Close(p)
  \/ \E p \in Procs : Clear(p)
  \/ \E p \in Procs : Step(p)
  \/ Tick

SpecShared == InitShared /\ [][NextShared]_vars

\* Concurrent writers only: no Dump, Close or Clear runs.
NextWriters ==
  \/ \E p \in Procs, b \in Payloads : Write(p, b)
  \/ \E p \in Procs : RLock(p)
  \/ \E p \in Procs : WriteExec(p)
  \/ Tick

SpecWriters == InitShared /\ [][NextWriters]_vars

\* The steps inside a call, with the lock granted as sync.RWMutex does.
StepQueued(p) ==
  \/ RLockQueued(p)
  \/ WriteExec(p)
  \/ DumpQuery(p)
  \/ DumpRows(p)
  \/ Lock(p)
  \/ ensureOpen(p)
  \/ CloseBody(p)
  \/ ClearBody(p)

\* Concurrent callers of one file-backed handle; the clock stands still.
NextLive ==
  \/ \E p \in Procs : Write(p, <<"a">>)
  \/ \E p \in Procs : Dump(p)
  \/ \E p \in Procs : Close(p)
  \/ \E p \in Procs : Clear(p)
  \/ \E p \in Procs : StepQueued(p)

\* Every caller inside a call keeps being scheduled; nobody has to call.
SpecLive == InitShared /\ [][NextLive]_vars /\ \A p \in Procs : WF_vars(StepQueued(p))

\* One caller, from before construction, under a wall clock that can be set
\* back between any two steps.
NextClock == Next \/ StepBack

SpecClock == Init /\ [][NextClock]_vars

\* One caller of a constructed handle whose statements and opens can fail.
NextFault ==
  \/ \E p \in Procs : WriteString(p, <<" ", "x">>)
  \/ \E p \in Procs : Dump(p)
  \/ \E p \in Procs : Close(p)
  \/ \E p \in Procs : Clear(p)
  \/ \E p \in Procs : Step(p)
  \/ \E p \in Procs : WriteExecFail(p)
  \/ \E p \in Procs : DumpQueryFail(p)
  \/ \E p \in Procs : DumpRowsFail(p)
  \/ \E p \in Procs : ensureOpenFail(p)
  \/ Tick

SpecFault == InitSeq /\ [][NextFault]_vars

\* ------------------------------------------------------------- properties

\* The entries of history h that no later insert has trimmed under the
\* handle's policy, oldest first: the last maxLines of h when maxLines is
\* active, not older than maxAge before the last when maxAge is active.
Surviving(h) ==
  LET n == Len(h)
      keep == {k \in 1..n :
                 /\ maxLines > 0 => k > n - maxLines
                 /\ maxAge > 0 => ~(h[k].ts < h[n].ts - maxAge)}
      idx(j) == CHOOSE k \in keep : Cardinality({m \in keep : m < k}) = j - 1
  IN  [j \in 1..Cardinality(keep) |-> h[idx(j)]]

Ids(sq) == [k \in 1..Len(sq) |-> sq[k].id]

\* The result of the Dump that has just returned.
Dumped == ret[last.proc]

\* C1: count-based retention.  With maxLines = k > 0 and maxAge = 0, a Dump
\* of a store that has received n > k writes returns exactly the last k
\* written entries, oldest first.
C1_CountRetention ==
  (last.step = "dump" /\ maxLines > 0 /\ maxAge = 0 /\ Len(Dumped.hist) > maxLines) =>
    LET h == Dumped.hist IN
    Dumped.val = [k \in 1..maxLines |-> TrimSpace(h[Len(h) - maxLines + k].entry)]

C1_Witness ==
  /\ last.step = "dump" /\ maxLines = 2 /\ maxAge = 0
  /\ Len(Dumped.hist) = 3 /\ Len(Dumped.val) = 2
  /\ Dumped.hist[1].entry # Dumped.hist[2].entry

C3_RetentionAfterWrite ==
  last.step = "insert" =>
    LET t == files[last.store] IN
    /\ maxLines > 0 => Cardinality(t.rows) <= maxLines
    /\ maxAge > 0 => \A r \in t.rows : r.ts >= last.ts - maxAge

C3_Witness ==
  /\ last.step = "insert" /\ maxLines > 0 /\ maxAge > 0
  /\ Len(files[last.store].hist) = 3
  /\ Cardinality(files[last.store].rows) = 1

\* C4: insert and trim are one atomic step.  Under concurrent Writes, every
\* Dump returns the rows of one committed state of the store it read: the
\* entries of that store's history that survive all its inserts' trims, never
\* a new entry together with rows its trim removes.
C4_AtomicInsertTrim ==
  last.step = "dump" =>
    LET rs == Dumped.rows IN
    /\ Ids(rs) = Ids(Surviving(Dumped.hist))
    /\ maxLines > 0 => Len(rs) <= maxLines
    /\ maxAge > 0 =>
         \A j \in 1..Len(rs), k \in 1..Len(rs) : rs[j].ts >= rs[k].ts - maxAge

\* A Dump holds its cursor while a Write commits an insert that trims.
C4_Witness ==
  /\ last.step = "insert"
  /\ \E p \in Procs : pc[p] = "rows" /\ dbl[p] = last.store /\ p # last.proc
  /\ Cardinality(files[last.store].rows) < Len(files[last.store].hist)

\* Every entry of history h is within the handle's active limits.
WithinLimits(h) ==
  /\ maxLines > 0 => Len(h) <= maxLines
  /\ maxAge > 0 => \A k \in 1..Len(h) : h[k].ts >= h[Len(h)].ts - maxAge

\* C5: Clear semantics.  The Dump that follows a Clear returns the empty
\* sequence, and after Clear, Dump, WriteString(" x") the next Dump returns
\* exactly <<"x">>, with no reopening by the caller.
C5_ClearThenReuse ==
  last.step = "dump" =>
    /\ last.trail[3] = "Clear" => Dumped.val = <<>>
    /\ last.trail = <<"Clear", "Dump", "Write">> => Dumped.val = << <<"x">> >>

C5_Witness ==
  /\ last.step = "dump" /\ last.trail = <<"Clear", "Dump", "Write">>
  /\ dbPath = FilePath /\ nwrites = 3

\* C6: concurrent writers.  While the writes so far are within the active
\* limits, the store holds every committed write exactly once, with its
\* payload, and every returned Write reported success.
C6_ConcurrentWriters ==
  LET t == files[db] IN
  WithinLimits(t.hist) =>
    /\ Len(t.hist) = nwrites
    /\ Cardinality(t.rows) = nwrites
    /\ \A k \in 1..nwrites : \E r \in t.rows : r.id = k /\ r.entry = t.hist[k].entry
    /\ \A p \in Procs : ret[p].op = "Write" => ret[p].err = "" /\ ret[p].n > 0

\* One writer's insert commits while another writer is inside its own Write.
C6_Witness ==
  /\ last.step = "insert" /\ nwrites = 2 /\ maxLines = 2
  /\ \E p \in Procs : p # last.proc /\ pc[p] = "exec"
  /\ Cardinality(files[db].rows) = 2
  /\ \E r \in files[db].rows : r.id = 1 /\ r.ts < last.ts

\* v is e without its leading and trailing white space.
IsTrimOf(v, e) ==
  \E i \in 1..(Len(e) + 1), j \in 0..Len(e) :
    /\ v = SubSeq(e, i, j)
    /\ \A k \in 1..Len(e) : (k < i \/ k > j) => IsSpace(e[k])
    /\ i <= j => ~IsSpace(e[i]) /\ ~IsSpace(e[j])

\* C7: round trip.  A Dump of a store whose writes are all within the active
\* limits returns one string per written entry, in the order written, each
\* the written string without its leading and trailing white space.
C7_RoundTrip ==
  (last.step = "dump" /\ WithinLimits(Dumped.hist)) =>
    /\ Len(Dumped.val) = Len(Dumped.hist)
    /\ \A k \in 1..Len(Dumped.val) : IsTrimOf(Dumped.val[k], Dumped.hist[k].entry)

C7_Witness ==
  /\ last.step = "dump" /\ Len(Dumped.val) = 3
  /\ Dumped.hist[1].entry = <<" ", "b", " ">> /\ Dumped.val[1] = <<"b">>
  /\ Dumped.val[2] = <<"a">>

\* C8: construction validation.  New fails on the policy exactly when both
\* constraints are 0, whatever the location, and then no database has been
\* opened or created; with a positive constraint and an openable location it
\* returns a handle carrying the policy and the location.
C8_ConstructionValidation ==
  constructed # "no" =>
    /\ constructed = "config" <=> (newArgs.maxLines = 0 /\ newArgs.maxAge = 0)
    /\ constructed = "config" =>
         db = 0 /\ path = 0 /\ \A i \in 1..MaxFiles : ~files[i].used
    /\ ((newArgs.maxLines > 0 \/ newArgs.maxAge > 0) /\ Openable(newArgs.dbPath)) =>
         /\ constructed = "ok"
         /\ maxLines = newArgs.maxLines /\ maxAge = newArgs.maxAge
         /\ dbPath = newArgs.dbPath

C8_Witness ==
  constructed = "config" /\ newArgs.dbPath = FilePath

\* A Close that finds no database leaves the handle and the stores as they were.
CloseOfNothing ==
  \A p \in Procs :
    (pc[p] = "body" /\ op[p] = "Close" /\ pc'[p] = "idle" /\ db = 0) =>
      UNCHANGED <<handle, db, files, path>>

\* The state half of C9: after a Close the handle has no database and no
\* error was returned; the Write or Dump after a Close ran on an open one.
C9_CloseState ==
  /\ last.step = "close" => (db = 0 /\ ret[last.proc].err = "")
  /\ (last.step \in {"insert", "dump"} /\ last.trail[3] = "Close") =>
       /\ db # 0 /\ files[db].used
       /\ ret[last.proc].err = ""

\* C9: idempotent close.  A Close leaves the handle without a database and
\* cannot fail; a Close that finds none changes nothing; the Write or Dump
\* that follows any number of Closes succeeds on a reopened database.
C9_IdempotentClose == []C9_CloseState /\ [][CloseOfNothing]_vars

C9_Witness ==
  /\ last.step = "insert" /\ last.trail[2] = "Close" /\ last.trail[3] = "Close"
  /\ nwrites = 2

\* C10: Close preserves durable data.  On a file-backed handle the Dump that
\* follows a Close returns exactly the rows retained when the Close began,
\* in the same order.
C10_ClosePreservesData ==
  (dbPath = FilePath /\ last.step = "dump" /\ last.trail[3] = "Close") =>
    /\ Dumped.rows = last.kept
    /\ Dumped.val = [k \in 1..Len(last.kept) |-> TrimSpace(last.kept[k].entry)]

C10_Witness ==
  /\ dbPath = FilePath /\ last.step = "dump" /\ last.trail[3] = "Close"
  /\ Len(Dumped.rows) = 2 /\ Len(Dumped.hist) = 3

\* The policy record of store t is the policy the handle was constructed with.
PolicyOf(t) ==
  /\ t.used
  /\ t.settings = [maxAge_ns |-> newArgs.maxAge, maxLines |-> newArgs.maxLines]

\* C11: Clear destroys and lazily recreates the file.  On a file-backed
\* handle, when Clear returns there is no file at dbPath and the handle has no
\* database; when the next Dump or Write returns the file exists again, the
\* handle is connected to it, and it carries the handle's policy.
C11_ClearRecreates ==
  dbPath = FilePath =>
    /\ last.step = "clear" => (path = 0 /\ db = 0)
    /\ (last.step \in {"insert", "dump"} /\ last.trail[3] = "Clear") =>
         /\ path # 0 /\ db = path
         /\ PolicyOf(files[path])
         /\ dbPath = newArgs.dbPath /\ maxLines = newArgs.maxLines /\ maxAge = newArgs.maxAge

\* A Write recreates the file that a Clear removed with two rows in it.
C11_Witness ==
  /\ dbPath = FilePath /\ last.step = "insert" /\ last.trail[3] = "Clear"
  /\ nwrites = 3 /\ path # 0 /\ Len(files[path].hist) = 1

\* A step in which a Close or Clear takes effect: the handle's database is
\* closed, or the file at dbPath is removed.
Released == (db # 0 /\ db' = 0) \/ (path # 0 /\ path' = 0)

\* No Close or Clear takes effect while caller p is between its query and the
\* reading of its last row.
DumpUndisturbed == \A p \in Procs : pc[p] = "rows" => ~Released

\* C12: Dump is serialized against Close and Clear.  No Close or Clear takes
\* effect between a Dump's query and the reading of its last row, and every
\* Dump returns the complete retained set of the store it queried.
C12_DumpSerialized ==
  /\ [][DumpUndisturbed]_vars
  /\ [](last.step = "dump" => Ids(Dumped.rows) = Ids(Surviving(Dumped.hist)))

\* A Dump returns rows of a database that a Clear closed and removed after
\* the Dump's query: the handle holds no database and no file exists.
C12_Witness ==
  /\ last.step = "dump" /\ Len(Dumped.rows) > 0
  /\ db = 0 /\ path = 0

\* C13: Write is serialized against Close and Clear.  While a Write's insert
\* is executing, the database it executes on is the handle's open database
\* (and the file at dbPath), held under the shared lock, so no Close or Clear
\* has released or removed it; the insert lands in the handle's database.
C13_WriteSerialized ==
  /\ \A p \in Procs :
       pc[p] = "exec" =>
         /\ p \in mu.readers /\ mu.writer = 0
         /\ db # 0 /\ dbl[p] = db /\ files[db].used
         /\ dbPath # MemoryPath => path = db
  /\ last.step = "insert" => (db = last.store /\ files[db].used)

\* A Clear waits for the lock while a Write's insert is executing.
C13_Witness ==
  \E p \in Procs, q \in Procs :
    /\ pc[p] = "exec" /\ pc[q] = "lock" /\ op[q] = "Clear"
    /\ files[db].rows # {}

\* Caller p cannot take its next step: it waits for the shared lock while
\* the lock is held exclusively or a caller waits for it in exclusive mode
\* (sync.RWMutex blocks new readers then), or it waits for the exclusive lock
\* while the lock is held in either mode.
Blocked(p) ==
  \/ pc[p] = "rlock" /\ (mu.writer # 0 \/ \E q \in Procs : WantsLock(q))
  \/ WantsLock(p) /\ (mu.writer # 0 \/ mu.readers # {})

\* C15: deadlock freedom of the lock.  No caller asks for or holds the
\* exclusive lock while it holds the shared lock, and whenever some caller is
\* inside a call, a caller inside a call can take its next step.
C15_DeadlockFree ==
  /\ \A p \in Procs : (WantsLock(p) \/ mu.writer = p) => p \notin mu.readers
  /\ (\E p \in Procs : pc[p] # "idle") => \E p \in Procs : pc[p] # "idle" /\ ~Blocked(p)
  /\ \A p \in Procs : pc[p] = "idle" => (p \notin mu.readers /\ mu.writer # p)

\* Both callers found no database: one reopens it under the exclusive lock,
\* the other waits for that lock.
C15_Witness ==
  \E p \in Procs, q \in Procs :
    /\ pc[p] = "elock" /\ Blocked(p)
    /\ pc[q] = "eopen" /\ mu.writer = q

\* An open runs in this step: a caller leaves ensureOpen having opened.
OpenRan == \E p \in Procs : pc[p] = "eopen" /\ pc'[p] = "rlock" /\ last'.step = "open"

\* An open runs only when the handle has no database and gives it one; the
\* handle gets a database only by an open; a database the handle has is
\* replaced by none only, as Close and Clear do after closing it; a caller
\* that finds a database under the exclusive lock leaves everything alone.
OpenOncePerAbsence ==
  /\ OpenRan => (db = 0 /\ db' # 0)
  /\ (db = 0 /\ db' # 0) => OpenRan
  /\ (db # 0 /\ db' # db) => db' = 0
  /\ \A p \in Procs :
       (pc[p] = "eopen" /\ pc'[p] = "rlock" /\ db # 0) => UNCHANGED <<db, files, path>>

\* C16: double-checked lazy open.  When several callers find the database
\* absent, one open runs per change from absent to present: ensureOpen checks
\* again under the exclusive lock, so no open runs while the handle has a
\* database and no database of the handle is overwritten by another.
C16_DoubleCheckedOpen == [][OpenOncePerAbsence]_vars

\* The second of two callers that found no database holds the exclusive
\* lock in ensureOpen and finds the database the first has opened.
C16_Witness ==
  \E p \in Procs, q \in Procs :
    /\ p # q /\ pc[p] = "eopen" /\ mu.writer = p /\ db # 0
    /\ pc[q] = "rlock" /\ files[db].used

\* Store I/O happens in this step: an open runs, the handle's database is
\* closed, or the file is removed.
StoreIO == OpenRan \/ Released

\* C17 as stated: the exclusive lock is never held across store I/O, and
\* Write and Dump hold the shared lock only while reading the pointer, not
\* while the insert or the query runs.
C17_NoLockAcrossIO ==
  /\ [][StoreIO => mu.writer = 0]_vars
  /\ [](\A p \in Procs : pc[p] \in {"exec", "query"} => p \notin mu.readers)

\* C17 amended: store I/O happens under the exclusive lock, held by the
\* caller doing it (ensureOpen across open, Close across the close, Clear
\* across the close and the removal); Write holds the shared lock until its
\* insert has run, Dump until its query has been issued, and Dump reads its
\* rows holding no lock.
C17_LockAcrossIO ==
  /\ [][StoreIO => \E p \in Procs : /\ mu.writer = p /\ mu.readers = {}
                                     /\ pc[p] \in {"eopen", "body"} /\ pc'[p] # pc[p]]_vars
  /\ [](\A p \in Procs : p \in mu.readers <=> pc[p] \in {"exec", "query"})

\* A Clear holds the exclusive lock, about to close and remove a database
\* with rows, while the other caller's Write waits for the shared lock.
C17_Witness ==
  \E p \in Procs, q \in Procs :
    /\ pc[p] = "body" /\ op[p] = "Clear" /\ mu.writer = p
    /\ db # 0 /\ files[db].rows # {}
    /\ pc[q] = "rlock" /\ op[q] = "Write"

\* Sequence rs is in ascending timestamp order, rows of equal timestamp in
\* the order of their insertion.
OldestFirst(rs) ==
  \A j \in 1..Len(rs), k \in 1..Len(rs) :
    j < k => (rs[j].ts < rs[k].ts \/ (rs[j].ts = rs[k].ts /\ rs[j].id < rs[k].id))

\* C18: Dump ordering.  Every Dump returns the retained entries in ascending
\* timestamp order, entries of equal timestamp in the order they were
\* inserted, whatever was trimmed before and however the clock moved.
C18_DumpOrdering ==
  last.step = "dump" =>
    /\ OldestFirst(Dumped.rows)
    /\ Dumped.val = [k \in 1..Len(Dumped.rows) |-> TrimSpace(Dumped.rows[k].entry)]

\* A Dump after a trim returns two entries of one timestamp, in the order
\* written, although the first has the greater payload.
C18_Witness ==
  /\ last.step = "dump" /\ Len(Dumped.hist) = 3 /\ Len(Dumped.rows) = 2
  /\ Dumped.rows[1].ts = Dumped.rows[2].ts
  /\ Dumped.val = << <<"b">>, <<"a">> >>

\* C19: timestamp monotonicity.  In every store, of two retained entries the
\* one inserted later does not have the smaller timestamp.
C19_TimestampMonotonic ==
  \A i \in 1..MaxFiles :
    \A r \in files[i].rows, q \in files[i].rows : r.id < q.id => r.ts <= q.ts

\* A store holds an entry written after the clock was set back, with a
\* smaller timestamp than the entry written before it.
C19_Witness ==
  \E i \in 1..MaxFiles :
    \E r \in files[i].rows, q \in files[i].rows : r.id < q.id /\ q.ts < r.ts

\* C20: policy immutability.  Whenever the handle has an open database, and
\* whenever a file is at dbPath, the policy recorded in it is the pair given
\* to New, and the handle's own fields still hold that pair and the location.
C20_PolicyImmutable ==
  constructed = "ok" =>
    /\ maxLines = newArgs.maxLines /\ maxAge = newArgs.maxAge /\ dbPath = newArgs.dbPath
    /\ db # 0 => PolicyOf(files[db])
    /\ path # 0 => PolicyOf(files[path])

\* A lazy reopen after a Clear that removed two entries has just created the
\* file again, with an age limit recorded.
C20_Witness ==
  /\ last.step = "open" /\ nwrites = 2 /\ dbPath = FilePath
  /\ files[db].rows = {} /\ files[db].settings.maxAge_ns = 1

\* C21: valid-policy invariant.  Every handle New returns has maxLines > 0
\* or maxAge > 0, whatever integers New was given.
C21_ValidPolicy ==
  constructed = "ok" => (maxLines > 0 \/ maxAge > 0)

\* New(-1, 0, ...) has returned a handle; neither limit is active and the
\* store keeps every entry written.
C21_Witness ==
  /\ constructed = "ok" /\ maxLines < 0 /\ maxAge = 0
  /\ db # 0 /\ Cardinality(files[db].rows) = MaxWrites

\* No Close or Clear is called in this step.
NoCloseOrClearCalled == \A p \in Procs : ~(pc[p] = "idle" /\ pc'[p] = "lock")

\* A caller starts over at the shared lock only from ensureOpen, and a step
\* that runs an insert or a query ends that caller's use of the lock for the
\* call: the insert and the query run once per call.
RetriesOnlyOpen ==
  \A p \in Procs :
    /\ (pc'[p] = "rlock" /\ pc[p] # "rlock") => pc[p] \in {"idle", "eopen"}
    /\ pc[p] = "exec" => pc'[p] \in {"exec", "idle"}
    /\ pc[p] = "query" => pc'[p] \in {"query", "rows"}
    /\ pc[p] = "rows" => pc'[p] \in {"rows", "idle"}

\* C22: termination of the retry loop.  If Close and Clear are called only
\* finitely often, every Write and every Dump that is called returns; the
\* loop goes round only through ensureOpen, never through a second insert or
\* query.
C22_RetryTerminates ==
  /\ (<>[][NoCloseOrClearCalled]_vars) =>
       \A p \in Procs : (op[p] \in {"Write", "Dump"}) ~> (pc[p] = "idle")
  /\ [][RetriesOnlyOpen]_vars

\* A Dump that found no database has reopened it and is back at the shared
\* lock, behind a Clear waiting in Lock: the Dump will go round again.
C22_Witness ==
  \E p \in Procs, q \in Procs :
    /\ last.step = "open" /\ last.proc = p /\ pc[p] = "rlock"
    /\ pc[q] = "lock" /\ op[p] = "Dump" /\ op[q] = "Clear"

\* The entry of the insert that has just run is in the store it ran on.
JustWrittenRetained == \E r \in files[last.store].rows : r.id = nwrites

\* C23: the entry just written survives its own trim.  Under a policy with
\* no negative limit and a positive one, right after a Write has returned
\* success its entry is in the store, whatever the store held and whatever
\* timestamps the clock gave.
C23_NewEntrySurvives ==
  (last.step = "insert" /\ maxLines >= 0 /\ maxAge >= 0 /\ (maxLines > 0 \/ maxAge > 0)) =>
    JustWrittenRetained

\* A Write has returned success, after the clock was set back, and its entry
\* is not in the store: the count pass kept two entries of later timestamp.
C23_Witness ==
  /\ last.step = "insert" /\ maxLines = 2 /\ maxAge = 0
  /\ ret[last.proc].err = "" /\ nwrites = 3
  /\ ~JustWrittenRetained
  /\ Cardinality(files[last.store].rows) = 2

\* Caller p's Write or Dump returns an error in this step.
Failed(p) == pc[p] # "idle" /\ pc'[p] = "idle" /\ ret'[p].err # ""

\* A failing call persists nothing and leaves the handle's database pointer
\* and the database it points to as they were.
FailureHarmless ==
  \A p \in Procs :
    Failed(p) =>
      /\ db' = db /\ nwrites' = nwrites
      /\ db # 0 => files'[db] = files[db]
      /\ \A i \in 1..MaxFiles : files'[i].rows \subseteq files[i].rows
      /\ UNCHANGED handle

\* The state a failure leaves, and the outcome of the call after it.
AfterFailure ==
  /\ last.step = "fail" =>
       /\ Idle(last.proc) /\ ret[last.proc].err # ""
       /\ last.proc \notin mu.readers /\ mu.writer # last.proc
       /\ db = 0 \/ files[db].used
  /\ (last.step \in {"insert", "dump"} /\ last.trail[3] = "fail") =>
       /\ ret[last.proc].err = ""
       /\ db # 0 /\ PolicyOf(files[db])

\* C14: operational failures do not corrupt the handle.  When a Write or
\* Dump returns an error, nothing was persisted, the handle's database is the
\* one it had or none, the caller holds no lock and has returned without
\* retrying; the Write or Dump that follows, if nothing fails in it, succeeds
\* on an open database carrying the policy.
C14_FailureSafe == []AfterFailure /\ [][FailureHarmless]_vars

\* After a Clear, a Write fails in its lazy open; the next Write and Dump
\* succeed on the reopened file.
C14_Witness ==
  /\ last.step = "dump" /\ last.trail = <<"Clear", "fail", "Write">>
  /\ dbPath = FilePath /\ Dumped.val = << <<"x">> >>
====
